---- MODULE Spec2Model ----
(***************************************************************************)
(* MarkdownFileBrowser (autogen_ext/agents/file_surfer): the viewport      *)
(* paginator, the incremental search engine and the browser session; and   *)
(* FileSurfer.on_messages, the agent that drives the browser from the tool *)
(* calls of a model client.                                                *)
(*                                                                         *)
(* Text is a sequence of one-character strings.  Python offsets are        *)
(* 0-based: the character at Python index i of s is s[i + 1].  A page is a *)
(* pair <<start, end>> of Python offsets (half open).  Python's None is    *)
(* the empty sequence and a present value v is <<v>>.                      *)
(***************************************************************************)
EXTENDS Integers, Sequences, FiniteSets, TLC

VARIABLES
    viewport_size,              \* self.viewport_size
    history,                    \* self.history: sequence of <<path, time>>
    page_title,                 \* self.page_title: None or <<title>>
    viewport_current_page,      \* self.viewport_current_page
    viewport_pages,             \* self.viewport_pages
    _page_content,              \* self._page_content
    _find_on_page_query,        \* self._find_on_page_query: None or <<query>>
    _find_on_page_last_result,  \* self._find_on_page_last_result: None or <<index>>
    find_on_page_query,         \* self.find_on_page_query (written by set_path)
    find_on_page_viewport,      \* self.find_on_page_viewport (written by set_path)
    clock,                      \* the reading time.time() gives next
    last,                       \* the call that ran last: its name, argument, outcome
    _chat_history               \* FileSurfer._chat_history

vars == <<viewport_size, history, page_title, viewport_current_page, viewport_pages,
          _page_content, _find_on_page_query, _find_on_page_last_result,
          find_on_page_query, find_on_page_viewport, clock, last, _chat_history>>

None == <<>>
Some(v) == <<v>>

Min(a, b) == IF a <= b THEN a ELSE b
Max(a, b) == IF a >= b THEN a ELSE b

\* s[a:b] of Python for 0 <= a, 0 <= b: both ends are clamped to len(s).
Slice(s, a, b) ==
    LET lo == Min(a, Len(s))
        hi == Min(b, Len(s))
    IN  IF lo >= hi THEN <<>> ELSE SubSeq(s, lo + 1, hi)

----------------------------------------------------------------------------
(* Bounds of the model. *)

\* opens after construction in one session
MaxOpens == 2
\* the small viewport size a session may be constructed with
SmallViewport == 8
\* pagination taken alone: body lengths and target page sizes enumerated
MaxBodyLen == 5
MaxPageSize == 3
\* messages the agent's chat history holds in one session
MaxChat == 2

----------------------------------------------------------------------------
(* Paginator: MarkdownFileBrowser._split_pages *)

\* the characters line 198 accepts as the end of a page
Whitespace == {" ", "\t", "\r", "\n"}

\* AdjustEnd that never moves the proposed end
AdjustEndKeep(content, end_idx) == end_idx

\* AdjustEnd that tests the character at end_idx instead of the one before it
RECURSIVE AdjustEndAhead(_, _)
AdjustEndAhead(content, end_idx) ==
    IF end_idx < Len(content) /\ content[end_idx + 1] \notin Whitespace
    THEN AdjustEndAhead(content, end_idx + 1)
    ELSE end_idx

\* the inner while loop of _split_pages (lines 198-199), for end_idx >= 1
RECURSIVE AdjustEnd(_, _)
AdjustEnd(content, end_idx) ==
    IF end_idx < Len(content) /\ content[(end_idx - 1) + 1] \notin Whitespace
    THEN AdjustEnd(content, end_idx + 1)
    ELSE end_idx

\* SplitLoop that starts the next page one character after the last end
RECURSIVE SplitLoopSkip(_, _, _, _)
SplitLoopSkip(content, size, start_idx, pages) ==
    IF start_idx < Len(content)
    THEN LET end_idx == AdjustEnd(content, Min(start_idx + size, Len(content)))
         IN  SplitLoopSkip(content, size, end_idx + 1,
                           Append(pages, <<start_idx, end_idx>>))
    ELSE pages

\* SplitLoop that proposes the end one character short of the page size
RECURSIVE SplitLoopShort(_, _, _, _)
SplitLoopShort(content, size, start_idx, pages) ==
    IF start_idx < Len(content)
    THEN LET end_idx == AdjustEnd(content, Min(start_idx + Max(size - 1, 1), Len(content)))
         IN  SplitLoopShort(content, size, end_idx, Append(pages, <<start_idx, end_idx>>))
    ELSE pages

\* the outer while loop of _split_pages (lines 194-201), for size >= 1
RECURSIVE SplitLoop(_, _, _, _)
SplitLoop(content, size, start_idx, pages) ==
    IF start_idx < Len(content)
    THEN LET end_idx == AdjustEnd(content, Min(start_idx + size, Len(content)))
         IN  SplitLoop(content, size, end_idx, Append(pages, <<start_idx, end_idx>>))
    ELSE pages

\* _split_pages: the pages of content under target page size `size`
_split_pages(content, size) ==
    IF Len(content) = 0
    THEN << <<0, 0>> >>
    ELSE SplitLoop(content, size, 0, <<>>)

----------------------------------------------------------------------------
(* Text handling of the search engine (lines 154-174). *)

UpperCase == <<"A", "B", "C", "D", "E", "F", "G", "H", "I", "J", "K", "L", "M",
               "N", "O", "P", "Q", "R", "S", "T", "U", "V", "W", "X", "Y", "Z">>
LowerCase == <<"a", "b", "c", "d", "e", "f", "g", "h", "i", "j", "k", "l", "m",
               "n", "o", "p", "q", "r", "s", "t", "u", "v", "w", "x", "y", "z">>
Digits == {"0", "1", "2", "3", "4", "5", "6", "7", "8", "9"}

\* The CJK ideographs of the placeholder bodies (lines 225-231), one element
\* each, named by code point; Python's \w matches every one of them.
Ideographs == {"U65E0", "U6CD5", "U9884", "U89C8", "U4F5C", "U4E3A", "U8F6C", "U6362",
               "U65F6", "U51FA", "U9519", "U5230", "U672A", "U627E", "U6587", "U4EF6"}

Letters == {UpperCase[i] : i \in 1..26} \cup {LowerCase[i] : i \in 1..26}

\* \w of Python's re on str
IsWordChar(c) == c \in Letters \/ c \in Digits \/ c = "_" \/ c \in Ideographs

\* str.lower on one character
LowerOf == [c \in {UpperCase[i] : i \in 1..26} |->
               LowerCase[CHOOSE i \in 1..26 : UpperCase[i] = c]]
LowerChar(c) == IF c \in DOMAIN LowerOf THEN LowerOf[c] ELSE c

\* str.lower
Lower(s) == [i \in 1..Len(s) |-> LowerChar(s[i])]

\* the first index >= i of s holding a word character, Len(s) + 1 when none
RECURSIVE SkipNonWord(_, _)
SkipNonWord(s, i) ==
    IF i <= Len(s) /\ ~IsWordChar(s[i]) THEN SkipNonWord(s, i + 1) ELSE i

\* re.split(r"\W+", s): the pieces between the maximal runs of non-word
\* characters, the empty pieces at either end included
RECURSIVE ReSplitFrom(_, _, _, _)
ReSplitFrom(s, i, piece, pieces) ==
    IF i > Len(s) THEN Append(pieces, piece)
    ELSE IF IsWordChar(s[i]) THEN ReSplitFrom(s, i + 1, Append(piece, s[i]), pieces)
    ELSE ReSplitFrom(s, SkipNonWord(s, i), <<>>, Append(pieces, piece))

ReSplit(s) == ReSplitFrom(s, 1, <<>>, <<>>)

\* " ".join(pieces)
RECURSIVE JoinSpace(_)
JoinSpace(pieces) ==
    IF Len(pieces) = 0 THEN <<>>
    ELSE IF Len(pieces) = 1 THEN pieces[1]
    ELSE pieces[1] \o <<" ">> \o JoinSpace(Tail(pieces))

\* str.strip()
RECURSIVE Strip(_)
Strip(s) ==
    IF Len(s) = 0 THEN s
    ELSE IF s[1] \in Whitespace THEN Strip(Tail(s))
    ELSE IF s[Len(s)] \in Whitespace THEN Strip(SubSeq(s, 1, Len(s) - 1))
    ELSE s

StartsWith(s, old) == Len(s) >= Len(old) /\ SubSeq(s, 1, Len(old)) = old

\* str.replace(old, new) for a non-empty old: leftmost occurrences, not overlapping
RECURSIVE Replace(_, _, _)
Replace(s, old, new) ==
    IF Len(s) = 0 THEN s
    ELSE IF StartsWith(s, old)
    THEN new \o Replace(SubSeq(s, Len(old) + 1, Len(s)), old, new)
    ELSE <<s[1]>> \o Replace(Tail(s), old, new)

STAR == <<"_", "_", "S", "T", "A", "R", "_", "_">>

\* lines 155-158: the query as the pattern handed to re.search
NormalizeQuery(query) ==
    LET q1 == Replace(query, <<"*">>, STAR)
        q2 == <<" ">> \o Strip(JoinSpace(ReSplit(q1))) \o <<" ">>
        q3 == Replace(q2, <<" ">> \o STAR \o <<" ">>, STAR \o <<" ">>)
    IN  Lower(Replace(q3, STAR, <<".", "*">>))

\* lines 172-173: the text of one page as re.search sees it
NormalizeContent(content) ==
    <<" ">> \o Lower(Strip(JoinSpace(ReSplit(content)))) \o <<" ">>

\* re.match of pattern[i..] at text[j..].  A pattern NormalizeQuery makes holds
\* word characters and spaces, which match themselves, and the pair ".*",
\* which matches any run of characters (the text holds no newline).
RECURSIVE MatchAt(_, _, _, _)
MatchAt(pattern, i, text, j) ==
    IF i > Len(pattern) THEN TRUE
    ELSE IF pattern[i] = "." /\ i < Len(pattern) /\ pattern[i + 1] = "*"
    THEN \E k \in j..(Len(text) + 1) : MatchAt(pattern, i + 2, text, k)
    ELSE /\ j <= Len(text)
         /\ text[j] = pattern[i]
         /\ MatchAt(pattern, i + 1, text, j + 1)

\* re.search(pattern, text) is not None
ReSearch(pattern, text) == \E j \in 1..(Len(text) + 1) : MatchAt(pattern, 1, text, j)

----------------------------------------------------------------------------
(* Search engine: _find_next_viewport, find_on_page, find_next.  `self` is  *)
(* the record of the fields these methods read and write.                  *)

\* the viewport property (lines 73-76)
viewport(self) ==
    LET bounds == self.viewport_pages[self.viewport_current_page + 1]
    IN  Slice(self._page_content, bounds[1], bounds[2])

\* range(a, b) as the sequence a, a + 1, ..., b - 1
Range(a, b) == IF b <= a THEN <<>> ELSE [k \in 1..(b - a) |-> a + k - 1]

\* the for loop of _find_next_viewport (lines 167-177) from position k of idxs
RECURSIVE ScanPages(_, _, _, _)
ScanPages(self, nquery, idxs, k) ==
    IF k > Len(idxs) THEN None
    ELSE LET i == idxs[k]
             bounds == self.viewport_pages[i + 1]
             content == Slice(self._page_content, bounds[1], bounds[2])
         IN  IF ReSearch(nquery, NormalizeContent(content))
             THEN Some(i)
             ELSE ScanPages(self, nquery, idxs, k + 1)

\* _find_next_viewport that stops at the last page instead of wrapping to
\* the first (line 165 without the second range)
_find_next_viewport_nowrap(self, query, starting_viewport) ==
    IF query = None THEN None
    ELSE LET nquery == NormalizeQuery(query[1])
             idxs == Range(starting_viewport, Len(self.viewport_pages))
         IN  IF Strip(nquery) = <<>> THEN None
             ELSE ScanPages(self, nquery, idxs, 1)

\* _find_next_viewport without the test for an empty pattern (lines 160-161)
_find_next_viewport_unchecked(self, query, starting_viewport) ==
    IF query = None THEN None
    ELSE ScanPages(self, NormalizeQuery(query[1]),
                   Range(starting_viewport, Len(self.viewport_pages))
                       \o Range(0, starting_viewport), 1)

\* lines 163-165: the page indices the scan reads, in order
Idxs(self, starting_viewport) ==
    Range(starting_viewport, Len(self.viewport_pages)) \o Range(0, starting_viewport)

\* _find_next_viewport (lines 148-177): None or <<index of the page found>>
_find_next_viewport(self, query, starting_viewport) ==
    IF query = None THEN None
    ELSE LET nquery == NormalizeQuery(query[1])
             idxs == Idxs(self, starting_viewport)
         IN  IF Strip(nquery) = <<>> THEN None
             ELSE ScanPages(self, nquery, idxs, 1)

\* lines 116-122 and 140-146: what both searches do with the page found
RecordMatch(self, viewport_match) ==
    IF viewport_match = None
    THEN [self |-> [self EXCEPT !._find_on_page_last_result = None], ret |-> None]
    ELSE LET found == [self EXCEPT !.viewport_current_page = viewport_match[1],
                                   !._find_on_page_last_result = viewport_match]
         IN  [self |-> found, ret |-> Some(viewport(found))]

\* StartingViewport that starts at the remembered page, not the one after it
StartingViewportStay(self) ==
    IF self._find_on_page_last_result = None THEN 0
    ELSE IF self._find_on_page_last_result[1] >= Len(self.viewport_pages) THEN 0
    ELSE self._find_on_page_last_result[1]

\* StartingViewport that starts after the current page, not the remembered one
StartingViewportFromCurrent(self) ==
    IF self.viewport_current_page + 1 >= Len(self.viewport_pages) THEN 0
    ELSE self.viewport_current_page + 1

\* StartingViewport without the wrap to the first page (lines 135-136)
StartingViewportNoWrap(self) ==
    IF self._find_on_page_last_result = None THEN 0
    ELSE self._find_on_page_last_result[1] + 1

\* lines 130-136: the page find_next starts its scan at
StartingViewport(self) ==
    IF self._find_on_page_last_result = None THEN 0
    ELSE IF self._find_on_page_last_result[1] + 1 >= Len(self.viewport_pages) THEN 0
    ELSE self._find_on_page_last_result[1] + 1

\* find_next (lines 124-146): the fields after the call and the value returned
find_next(self) ==
    IF self._find_on_page_query = None
    THEN [self |-> self, ret |-> None]
    ELSE RecordMatch(self, _find_next_viewport(self, self._find_on_page_query,
                                                StartingViewport(self)))

\* RepeatsSearch that reads the attribute set_path writes, not the cursor
RepeatsSearchOtherField(self, query) ==
    /\ Some(query) = self._find_on_page_query
    /\ Some(self.viewport_current_page) = self.find_on_page_viewport

\* line 109: the call repeats the search that brought the session here
RepeatsSearch(self, query) ==
    /\ Some(query) = self._find_on_page_query
    /\ Some(self.viewport_current_page) = self._find_on_page_last_result

\* find_on_page (lines 104-122): the fields after the call and the value returned
find_on_page(self, query) ==
    IF RepeatsSearch(self, query)
    THEN find_next(self)
    ELSE LET fresh == [self EXCEPT !._find_on_page_query = Some(query)]
         IN  RecordMatch(fresh, _find_next_viewport(fresh, Some(query),
                                                     fresh.viewport_current_page))

\* page_down without the clamp at the last page
page_down_unclamped(self) ==
    [self EXCEPT !.viewport_current_page = self.viewport_current_page + 1]

\* page_down (lines 95-98)
page_down(self) ==
    [self EXCEPT !.viewport_current_page =
        Min(self.viewport_current_page + 1, Len(self.viewport_pages) - 1)]

\* page_up without the clamp at the first page
page_up_unclamped(self) ==
    [self EXCEPT !.viewport_current_page = self.viewport_current_page - 1]

\* page_up that also forgets the remembered match page
page_up_forgets(self) ==
    [self EXCEPT !.viewport_current_page = Max(self.viewport_current_page - 1, 0),
                 !._find_on_page_last_result = None]

\* page_up (lines 100-102)
page_up(self) ==
    [self EXCEPT !.viewport_current_page = Max(self.viewport_current_page - 1, 0)]

----------------------------------------------------------------------------
(* Path resolution of set_path (lines 57-63).  The paths of the model hold *)
(* no ".", ".." or doubled or trailing separator, so os.path.abspath has   *)
(* nothing to normalise beyond making the path absolute.                   *)

\* os.getcwd() and the home directory os.path.expanduser substitutes
Cwd == <<"/", "c">>
Home == <<"/", "h">>

\* os.path.isabs
IsAbs(path) == Len(path) > 0 /\ path[1] = "/"

\* os.path.expanduser for "~" and "~/..."
ExpandUser(path) ==
    IF Len(path) > 0 /\ path[1] = "~" /\ (Len(path) = 1 \/ path[2] = "/")
    THEN Home \o Tail(path)
    ELSE path

\* the offset just past the last "/" of path[1..n], 0 when there is none
RECURSIVE LastSep(_, _)
LastSep(path, n) ==
    IF n = 0 THEN 0 ELSE IF path[n] = "/" THEN n ELSE LastSep(path, n - 1)

\* os.path.dirname
DirName(path) ==
    LET i == LastSep(path, Len(path))
    IN  IF i <= 1 THEN SubSeq(path, 1, i) ELSE SubSeq(path, 1, i - 1)

\* os.path.join(a, b)
PathJoin(a, b) ==
    IF IsAbs(b) THEN b
    ELSE IF Len(a) = 0 \/ a[Len(a)] = "/" THEN a \o b
    ELSE a \o <<"/">> \o b

\* os.path.abspath
AbsPath(path) == IF IsAbs(path) THEN path ELSE PathJoin(Cwd, path)

\* the path property (lines 40-46)
CurrentPath(self) ==
    IF Len(self.history) = 0 THEN Cwd ELSE self.history[Len(self.history)][1]

\* The file system of the session: the working directory holds the file g
\* and no other path exists (the home directory the environment names is
\* missing).
Dirs == {Cwd}
Files == {Cwd \o <<"/", "g">>}

\* os.path.isfile and os.path.isdir; a relative path is taken from Cwd
IsFile(path) == AbsPath(path) \in Files
IsDir(path) == AbsPath(path) \in Dirs

\* lines 57-63: the path set_path records and opens
ResolvePath(self, path) ==
    LET expanded == ExpandUser(path)
    IN  IF IsAbs(expanded) THEN expanded
        ELSE IF IsFile(CurrentPath(self))
        THEN AbsPath(PathJoin(DirName(CurrentPath(self)), expanded))
        ELSE IF IsDir(CurrentPath(self))
        THEN AbsPath(PathJoin(CurrentPath(self), expanded))
        ELSE expanded

----------------------------------------------------------------------------
(* Opening: _set_page_content, _open_path, set_path, open_path, __init__.  *)

\* _set_page_content (lines 83-93)
_set_page_content(self, content, split_pages) ==
    LET pages == IF split_pages
                 THEN _split_pages(content, self.viewport_size)
                 ELSE << <<0, Len(content)>> >>
    IN  [self EXCEPT !._page_content = content,
                     !.viewport_pages = pages,
                     !.viewport_current_page =
                         IF self.viewport_current_page >= Len(pages)
                         THEN Len(pages) - 1
                         ELSE self.viewport_current_page]

Markdown == <<"M", "a", "r", "k", "d", "o", "w", "n">>

\* the placeholder bodies of lines 225, 228 and 231
UnsupportedFormatBody(path) ==
    <<"#", " ", "U65E0", "U6CD5", "U9884", "U89C8", "'">> \o path
        \o <<"'", " ", "U4F5C", "U4E3A", " ">> \o Markdown \o <<".">>
FileConversionBody(path) ==
    <<"#", " ", "U8F6C", "U6362", "U65F6", "U51FA", "U9519", "'">> \o path
        \o <<"'", " ", "U5230", " ">> \o Markdown \o <<"U3002">>
FileNotFoundBody(path) ==
    <<"#", " ", "U672A", "U627E", "U5230", "U6587", "U4EF6", "UFF1A", " ">> \o path

\* The exceptions _open_path catches (lines 223-231), and one it does not:
\* os.listdir (line 250) and the converter's open() raise PermissionError.
CaughtKinds == {"UnsupportedFormatException", "FileConversionException", "FileNotFoundError"}
UncaughtKinds == {"PermissionError"}

\* What the converter returns for a file and for a directory listing.
FileResults ==
    { [title |-> None,
       text |-> <<"A", "b", ".", " ", "x", "y", ".", " ", "c", "d", ".", " ",
                  "x", "y", ".", " ", "e", "f", " ", "c", "d">>],
      [title |-> Some("T"),
       text |-> <<"a", "b", " ", "x", "y", "z", " ", "\n", "c", "d", " ", "a", "b">>],
      [title |-> None, text |-> <<>>] }
DirResults ==
    { [title |-> None, text |-> <<"|", " ", "a", "b", " ", "|", "\n">>] }

Raises(kinds) == {[kind |-> k, title |-> None, text |-> <<>>] : k \in kinds}

\* The outcomes of lines 213-222 for one path: a conversion or an exception.
\* A directory is listed and the listing converted (listing it can fail, and
\* so can reading the modification time of an entry); a file is converted;
\* a path that does not exist makes the converter raise FileNotFoundError.
LoaderOutcomes(path) ==
    IF IsDir(path)
    THEN {[kind |-> "dir", title |-> r.title, text |-> r.text] : r \in DirResults}
             \cup Raises(CaughtKinds \cup UncaughtKinds)
    ELSE IF IsFile(path)
    THEN {[kind |-> "file", title |-> r.title, text |-> r.text] : r \in FileResults}
             \cup Raises({"UnsupportedFormatException", "FileConversionException"}
                             \cup UncaughtKinds)
    ELSE Raises({"FileNotFoundError"})

\* _open_path (lines 203-231): the fields after the call, and whether it raised
_open_path(self, path, outcome) ==
    IF outcome.kind = "dir"
    THEN [self |-> _set_page_content([self EXCEPT !.page_title = outcome.title],
                                     outcome.text, FALSE),
          raised |-> FALSE]
    ELSE IF outcome.kind = "file"
    THEN [self |-> _set_page_content([self EXCEPT !.page_title = outcome.title],
                                     outcome.text, TRUE),
          raised |-> FALSE]
    ELSE IF outcome.kind = "UnsupportedFormatException"
    THEN [self |-> _set_page_content(
                       [self EXCEPT !.page_title = Some("UnsupportedFormatException")],
                       UnsupportedFormatBody(path), TRUE),
          raised |-> FALSE]
    ELSE IF outcome.kind = "FileConversionException"
    THEN [self |-> _set_page_content(
                       [self EXCEPT !.page_title = Some("FileConversionException.")],
                       FileConversionBody(path), TRUE),
          raised |-> FALSE]
    ELSE IF outcome.kind = "FileNotFoundError"
    THEN [self |-> _set_page_content(
                       [self EXCEPT !.page_title = Some("FileNotFoundError")],
                       FileNotFoundBody(path), TRUE),
          raised |-> FALSE]
    ELSE [self |-> self, raised |-> TRUE]

\* lines 68-70: what set_path does once _open_path has returned
ResetAfterOpen(self) ==
    [self EXCEPT !.viewport_current_page = 0,
                 !.find_on_page_query = None,
                 !.find_on_page_viewport = None]

\* set_path that records the visit once _open_path has returned
set_path_records_last(self, path, outcome, now) ==
    LET resolved == ResolvePath(self, path)
        opened == _open_path(self, resolved, outcome)
        recorded == [opened.self EXCEPT !.history = Append(self.history, <<resolved, now>>)]
    IN  IF opened.raised
        THEN [self |-> opened.self, raised |-> TRUE]
        ELSE [self |-> ResetAfterOpen(recorded), raised |-> FALSE]

\* set_path (lines 48-70) at time `now`: the fields after the call, and
\* whether the exception of _open_path left it
set_path(self, path, outcome, now) ==
    LET resolved == ResolvePath(self, path)
        recorded == [self EXCEPT !.history = Append(self.history, <<resolved, now>>)]
        opened == _open_path(recorded, resolved, outcome)
    IN  IF opened.raised
        THEN [self |-> opened.self, raised |-> TRUE]
        ELSE [self |-> ResetAfterOpen(opened.self), raised |-> FALSE]

\* open_path (lines 179-182): set_path, then the viewport
open_path(self, path, outcome, now) ==
    LET done == set_path(self, path, outcome, now)
    IN  [self |-> done.self,
         raised |-> done.raised,
         ret |-> IF done.raised THEN None ELSE Some(viewport(done.self))]

\* __init__ (lines 20-38) when set_path returns
Construct(size, outcome, now) ==
    LET fresh == [viewport_size |-> size,
                  history |-> <<>>,
                  page_title |-> None,
                  viewport_current_page |-> 0,
                  viewport_pages |-> <<>>,
                  _page_content |-> <<>>,
                  _find_on_page_query |-> None,
                  _find_on_page_last_result |-> None,
                  find_on_page_query |-> None,
                  find_on_page_viewport |-> None]
        opened == set_path(fresh, Cwd, outcome, now).self
    IN  [opened EXCEPT !._page_content = <<>>,
                       !._find_on_page_query = None,
                       !._find_on_page_last_result = None]

\* _get_browser_state (lines 108-111 of _file_surfer.py): the X and Y of the
\* header's "page X of Y"
HeaderPosition(self) == <<self.viewport_current_page + 1, Len(self.viewport_pages)>>

----------------------------------------------------------------------------
(* The browser session as a state machine. *)

\* the default of viewport_size (line 21)
DefaultViewport == 1024 * 8
ViewportSizes == {SmallViewport, DefaultViewport}

\* the paths and the search strings the caller passes
InputPaths == { <<"g">>, <<"~">>, Cwd }
Queries == { <<"a", "b">>, <<"c", "d">>, <<"*">>, <<>> }

\* The object's fields as one record.
Self ==
    [viewport_size |-> viewport_size,
     history |-> history,
     page_title |-> page_title,
     viewport_current_page |-> viewport_current_page,
     viewport_pages |-> viewport_pages,
     _page_content |-> _page_content,
     _find_on_page_query |-> _find_on_page_query,
     _find_on_page_last_result |-> _find_on_page_last_result,
     find_on_page_query |-> find_on_page_query,
     find_on_page_viewport |-> find_on_page_viewport]

\* The fields of the next state are those of the record.
Becomes(self) ==
    /\ viewport_size' = self.viewport_size
    /\ history' = self.history
    /\ page_title' = self.page_title
    /\ viewport_current_page' = self.viewport_current_page
    /\ viewport_pages' = self.viewport_pages
    /\ _page_content' = self._page_content
    /\ _find_on_page_query' = self._find_on_page_query
    /\ _find_on_page_last_result' = self._find_on_page_last_result
    /\ find_on_page_query' = self.find_on_page_query
    /\ find_on_page_viewport' = self.find_on_page_viewport

Called(op, outcome, raised, ret) ==
    [op |-> op, outcome |-> outcome, raised |-> raised, ret |-> ret]

\* The state MarkdownFileBrowser(viewport_size) leaves: the working directory
\* is listed, or the converter fails in one of the ways _open_path catches.
Init ==
    \E size \in ViewportSizes :
    \E outcome \in {o \in LoaderOutcomes(Cwd) : o.kind \notin UncaughtKinds} :
        \E self \in {Construct(size, outcome, 0)} :
            /\ viewport_size = self.viewport_size
            /\ history = self.history
            /\ page_title = self.page_title
            /\ viewport_current_page = self.viewport_current_page
            /\ viewport_pages = self.viewport_pages
            /\ _page_content = self._page_content
            /\ _find_on_page_query = self._find_on_page_query
            /\ _find_on_page_last_result = self._find_on_page_last_result
            /\ find_on_page_query = self.find_on_page_query
            /\ find_on_page_viewport = self.find_on_page_viewport
            /\ clock = 1
            /\ last = Called("__init__", outcome.kind, FALSE, None)
            /\ _chat_history = <<>>

\* browser.open_path(path)
OpenPath ==
    /\ Len(history) < 1 + MaxOpens
    /\ \E path \in InputPaths :
       \E outcome \in LoaderOutcomes(ResolvePath(Self, path)) :
         \E done \in {open_path(Self, path, outcome, clock)} :
             /\ Becomes(done.self)
             /\ clock' = clock + 1
             /\ last' = Called("open_path", outcome.kind, done.raised, done.ret)
             /\ UNCHANGED _chat_history

\* browser.page_down()
PageDown ==
    /\ \E done \in {page_down(Self)} : Becomes(done)
    /\ last' = Called("page_down", "", FALSE, None)
    /\ UNCHANGED <<clock, _chat_history>>

\* browser.page_up()
PageUp ==
    /\ \E done \in {page_up(Self)} : Becomes(done)
    /\ last' = Called("page_up", "", FALSE, None)
    /\ UNCHANGED <<clock, _chat_history>>

\* browser.find_on_page(query)
FindOnPage ==
    \E query \in Queries :
        \E done \in {find_on_page(Self, query)} :
            /\ Becomes(done.self)
            /\ last' = Called("find_on_page", "", FALSE, done.ret)
            /\ UNCHANGED <<clock, _chat_history>>

\* browser.find_next()
FindNext ==
    \E done \in {find_next(Self)} :
        /\ Becomes(done.self)
        /\ last' = Called("find_next", "", FALSE, done.ret)
        /\ UNCHANGED <<clock, _chat_history>>

Next == OpenPath \/ PageDown \/ PageUp \/ FindOnPage \/ FindNext

Spec == Init /\ [][Next]_vars

----------------------------------------------------------------------------
(* The paginator alone: _split_pages applied to each body and page size.   *)

PageAlphabet == {"a", " ", "\t", "\n"}

RECURSIVE TextsOfLen(_)
TextsOfLen(n) ==
    IF n = 0 THEN {<<>>}
    ELSE {Append(t, c) : t \in TextsOfLen(n - 1), c \in PageAlphabet}

\* "aaaa bbbb cccc"
ScenarioBody == <<"a", "a", "a", "a", " ", "b", "b", "b", "b", " ", "c", "c", "c", "c">>

PageBodies ==
    UNION {TextsOfLen(n) : n \in 0..MaxBodyLen}
        \cup {ScenarioBody, <<"a", "b", "\r", "c", "d", "e", "\r", "\n", "f">>}
PageSizes == (1..MaxPageSize) \cup {6}

InitPaginate ==
    /\ viewport_size \in PageSizes
    /\ _page_content \in PageBodies
    /\ viewport_pages = <<>>
    /\ viewport_current_page = 0
    /\ history = <<>>
    /\ page_title = None
    /\ _find_on_page_query = None
    /\ _find_on_page_last_result = None
    /\ find_on_page_query = None
    /\ find_on_page_viewport = None
    /\ clock = 0
    /\ last = Called("input", "", FALSE, None)
    /\ _chat_history = <<>>

\* self._split_pages()
SplitPages ==
    /\ last.op = "input"
    /\ viewport_pages' = _split_pages(_page_content, viewport_size)
    /\ last' = Called("_split_pages", "", FALSE, None)
    /\ UNCHANGED <<viewport_size, history, page_title, viewport_current_page,
                   _page_content, _find_on_page_query, _find_on_page_last_result,
                   find_on_page_query, find_on_page_viewport, clock, _chat_history>>

NextPaginate == SplitPages

SpecPaginate == InitPaginate /\ [][NextPaginate]_vars

----------------------------------------------------------------------------
(* FileSurfer (_file_surfer.py): on_messages drives the browser from the   *)
(* tool calls the model client returns.  `self` is the browser's record    *)
(* and `chat` the list self._chat_history.                                  *)

\* the viewport size FileSurfer constructs its browser with (line 69)
AgentViewport == 1024 * 5

\* The chat message types a caller sends; line 77 accepts two of them.
MessageTypes == {"TextMessage", "MultiModalMessage", "StopMessage"}
AcceptedTypes == {"TextMessage", "MultiModalMessage"}

\* the content of a message: what it is, the header lines, the text
Content(kind, header, text) == [kind |-> kind, header |-> header, text |-> text]

\* UserMessage(content=chat_message.content, ...) of lines 78-79: the content
\* of either accepted type is the task
UserMessage(type) == [role |-> "user", content |-> Content("task", <<>>, <<>>)]

\* AssistantMessage(content=content, ...) of lines 86-87 and 92-93
AssistantMessage(content) == [role |-> "assistant", content |-> content]

\* lines 76-82: the chat history after the loop, and whether line 81 raised
RECURSIVE ReceiveMessages(_, _)
ReceiveMessages(chat, messages) ==
    IF messages = <<>> THEN [chat |-> chat, raised |-> FALSE]
    ELSE IF Head(messages) \in AcceptedTypes
    THEN ReceiveMessages(Append(chat, UserMessage(Head(messages))), Tail(messages))
    ELSE [chat |-> chat, raised |-> TRUE]

\* json.loads on the argument strings of the tool calls: a dict, a list, or
\* JSONDecodeError
JsonLoads(arguments) ==
    IF arguments = "{\"path\": \"g\"}"
    THEN [error |-> FALSE, type |-> "dict", value |-> [k \in {"path"} |-> <<"g">>]]
    ELSE IF arguments = "{\"path\": \"~\"}"
    THEN [error |-> FALSE, type |-> "dict", value |-> [k \in {"path"} |-> <<"~">>]]
    ELSE IF arguments = "{\"search_string\": \"ab\"}"
    THEN [error |-> FALSE, type |-> "dict",
          value |-> [k \in {"search_string"} |-> <<"a", "b">>]]
    ELSE IF arguments = "{}"
    THEN [error |-> FALSE, type |-> "dict", value |-> [k \in {} |-> <<>>]]
    ELSE IF arguments = "[\"g\"]"
    THEN [error |-> FALSE, type |-> "list", value |-> << <<"g">> >>]
    ELSE [error |-> TRUE, type |-> "", value |-> <<>>]

\* arguments[key] (lines 166 and 173): the exception it raises, "" when none
SubscriptError(decoded, key) ==
    IF decoded.type # "dict" THEN "TypeError"
    ELSE IF key \notin DOMAIN decoded.value THEN "KeyError"
    ELSE ""

\* The loop of lines 155-176 over the tool calls: every way it can end, as
\* the browser after it, the clock, and how it ended ("" when the loop ran
\* to its end, "JSONDecodeError" for the return of line 163, else the
\* exception that left it).
RECURSIVE RunCalls(_, _, _)
RunCalls(self, function_calls, now) ==
    IF function_calls = <<>> THEN {[self |-> self, now |-> now, exit |-> ""]}
    ELSE LET function_call == Head(function_calls)
             tool_name == function_call.name
             arguments == JsonLoads(function_call.arguments)
             Leaves(exit) == {[self |-> self, now |-> now, exit |-> exit]}
             Continues(after) == RunCalls(after, Tail(function_calls), now)
         IN  IF arguments.error THEN Leaves("JSONDecodeError")
             ELSE IF tool_name = "open_path"
             THEN IF SubscriptError(arguments, "path") # ""
                  THEN Leaves(SubscriptError(arguments, "path"))
                  ELSE UNION {
                         UNION {
                           IF done.raised
                           THEN {[self |-> done.self, now |-> now + 1,
                                  exit |-> outcome.kind]}
                           ELSE RunCalls(done.self, Tail(function_calls), now + 1)
                           : done \in {open_path(self, arguments.value["path"],
                                                 outcome, now)} }
                         : outcome \in LoaderOutcomes(
                                          ResolvePath(self, arguments.value["path"])) }
             ELSE IF tool_name = "page_up" THEN Continues(page_up(self))
             ELSE IF tool_name = "page_down" THEN Continues(page_down(self))
             ELSE IF tool_name = "find_on_page_ctrl_f"
             THEN IF SubscriptError(arguments, "search_string") # ""
                  THEN Leaves(SubscriptError(arguments, "search_string"))
                  ELSE Continues(find_on_page(self, arguments.value["search_string"]).self)
             ELSE IF tool_name = "find_next" THEN Continues(find_next(self).self)
             ELSE Continues(self)

\* _get_browser_state (lines 99-113) as the reply of lines 177-179
BrowserState(self) ==
    Content("browser_state",
            <<CurrentPath(self), self.page_title, HeaderPosition(self)>>,
            viewport(self))

\* _generate_reply (lines 115-182) for one behaviour of the model client:
\* every way it can end, as the browser after it, the clock, the exception
\* that left it ("" when it returned) and the content returned
_generate_reply(self, chat, create_result, now) ==
    LET Raises_(exception) ==
            {[self |-> self, now |-> now, exception |-> exception, content |-> None]}
        Returns(content) ==
            {[self |-> self, now |-> now, exception |-> "", content |-> Some(content)]}
    IN  IF Len(chat) = 0 THEN Raises_("IndexError")
        ELSE IF chat[Len(chat)].role # "user" THEN Raises_("AssertionError")
        ELSE IF create_result.kind = "raises" THEN Raises_("ModelClientError")
        ELSE IF create_result.kind = "str"
        THEN Returns(Content("answer", <<>>, <<>>))
        ELSE IF create_result.kind = "function_calls"
        THEN {IF ran.exit = ""
              THEN [self |-> ran.self, now |-> ran.now, exception |-> "",
                    content |-> Some(BrowserState(ran.self))]
              ELSE IF ran.exit = "JSONDecodeError"
              THEN [self |-> ran.self, now |-> ran.now, exception |-> "",
                    content |-> Some(Content("error_str", <<>>, <<"JSONDecodeError">>))]
              ELSE [self |-> ran.self, now |-> ran.now, exception |-> ran.exit,
                    content |-> None]
              : ran \in RunCalls(self, create_result.content, now)}
        ELSE Returns(Content("TERMINATE", <<>>, <<>>))

\* Respond that leaves the chat history alone when the reply failed
RespondUnrecorded(chat, generated) ==
    IF generated.exception = ""
    THEN [chat |-> Append(chat, AssistantMessage(generated.content[1])),
          ret |-> generated.content]
    ELSE [chat |-> chat,
          ret |-> Some(Content("traceback", <<>>, <<generated.exception>>))]

\* lines 84-94: the chat history and the response once _generate_reply has
\* returned or raised
Respond(chat, generated) ==
    LET content == IF generated.exception = ""
                   THEN generated.content[1]
                   ELSE Content("traceback", <<>>, <<generated.exception>>)
    IN  [chat |-> Append(chat, AssistantMessage(content)), ret |-> Some(content)]

\* on_messages (lines 75-94): every way the call can end
on_messages(self, chat, messages, create_result, now) ==
    LET received == ReceiveMessages(chat, messages)
    IN  IF received.raised
        THEN {[self |-> self, chat |-> received.chat, now |-> now,
               exception |-> "ValueError", raised |-> TRUE, ret |-> None]}
        ELSE UNION {
               {[self |-> generated.self,
                 chat |-> responded.chat,
                 now |-> generated.now,
                 exception |-> generated.exception,
                 raised |-> FALSE,
                 ret |-> responded.ret]
                : responded \in {Respond(received.chat, generated)}}
               : generated \in _generate_reply(self, received.chat, create_result, now)}

\* the message lists a caller passes
MessageLists ==
    { <<>>, <<"TextMessage">>, <<"MultiModalMessage">>, <<"StopMessage">>,
      <<"TextMessage", "TextMessage">>, <<"TextMessage", "StopMessage">> }

FunctionCall(name, arguments) == [name |-> name, arguments |-> arguments]

\* the tool call lists the model client answers with
FunctionCallLists ==
    { <<>>,
      <<FunctionCall("open_path", "{\"path\": \"g\"}")>>,
      <<FunctionCall("open_path", "{\"path\": \"~\"}")>>,
      <<FunctionCall("open_path", "{}")>>,
      <<FunctionCall("open_path", "[\"g\"]")>>,
      <<FunctionCall("page_down", "{}"), FunctionCall("page_up", "{}")>>,
      <<FunctionCall("find_on_page_ctrl_f", "{\"search_string\": \"ab\"}"),
        FunctionCall("find_next", "{}")>>,
      <<FunctionCall("find_on_page_ctrl_f", "{}")>>,
      <<FunctionCall("open_path", "{\"path\": \"g\"}"),
        FunctionCall("find_next", "{\"path\"")>>,
      <<FunctionCall("page_down", "")>>,
      <<FunctionCall("list_dir", "{}")>>,
      <<FunctionCall("open_path", "{\"path\": \"~\"}"),
        FunctionCall("open_path", "{\"path\": \"g\"}")>> }

\* what self._model_client.create does (lines 135-147): it raises, or its
\* result holds a string, a list of tool calls, or anything else
CreateResults ==
    {[kind |-> k, content |-> <<>>] : k \in {"raises", "str", "other"}}
        \cup {[kind |-> "function_calls", content |-> l] : l \in FunctionCallLists}

\* FileSurfer(name, model_client) (lines 60-69)
InitAgent ==
    \E outcome \in {o \in LoaderOutcomes(Cwd) : o.kind \notin UncaughtKinds} :
        \E self \in {Construct(AgentViewport, outcome, 0)} :
            /\ viewport_size = self.viewport_size
            /\ history = self.history
            /\ page_title = self.page_title
            /\ viewport_current_page = self.viewport_current_page
            /\ viewport_pages = self.viewport_pages
            /\ _page_content = self._page_content
            /\ _find_on_page_query = self._find_on_page_query
            /\ _find_on_page_last_result = self._find_on_page_last_result
            /\ find_on_page_query = self.find_on_page_query
            /\ find_on_page_viewport = self.find_on_page_viewport
            /\ clock = 1
            /\ last = Called("__init__", outcome.kind, FALSE, None)
            /\ _chat_history = <<>>

\* agent.on_messages(messages, cancellation_token)
OnMessages ==
    \E messages \in MessageLists :
    \E create_result \in CreateResults :
    \E done \in on_messages(Self, _chat_history, messages, create_result, clock) :
        /\ Len(done.self.history) <= 1 + MaxOpens
        /\ Len(done.chat) <= MaxChat
        /\ Becomes(done.self)
        /\ _chat_history' = done.chat
        /\ clock' = done.now
        /\ last' = Called("on_messages", done.exception, done.raised, done.ret)

\* agent.on_reset(cancellation_token) (lines 96-97)
OnReset ==
    /\ _chat_history' = <<>>
    /\ last' = Called("on_reset", "", FALSE, None)
    /\ UNCHANGED <<viewport_size, history, page_title, viewport_current_page,
                   viewport_pages, _page_content, _find_on_page_query,
                   _find_on_page_last_result, find_on_page_query,
                   find_on_page_viewport, clock>>

NextAgent == OnMessages \/ OnReset

SpecAgent == InitAgent /\ [][NextAgent]_vars

----------------------------------------------------------------------------
(* Properties. *)

\* pages are contiguous, do not overlap, and cover [0, n) exactly
Covers(pages, n) ==
    /\ Len(pages) >= 1
    /\ pages[1][1] = 0
    /\ pages[Len(pages)][2] = n
    /\ \A i \in 1..Len(pages) : pages[i][1] <= pages[i][2]
    /\ \A i \in 1..(Len(pages) - 1) : pages[i + 1][1] = pages[i][2]

\* part occurs in text
Contains(text, part) ==
    \E i \in 0..(Len(text) - Len(part)) : SubSeq(text, i + 1, i + Len(part)) = part

\* C1: after an open that returns, the search cursor is cleared (no active
\* query, no remembered match page), so a find_next issued at once reports no
\* match and leaves the current page at 0.
C1_OpenClearsCursor ==
    (last.op = "open_path" /\ ~last.raised) =>
        /\ _find_on_page_query = None
        /\ _find_on_page_last_result = None
        /\ find_next(Self).ret = None
        /\ find_next(Self).self.viewport_current_page = 0

\* C2: in every reachable state of a session, from construction on, the page
\* list is contiguous, non-overlapping and covers [0, len(body)) of the body
\* held, so the viewport is exactly the slice the current page names.
C2_PagesCoverBody ==
    /\ Covers(viewport_pages, Len(_page_content))
    /\ LET bounds == viewport_pages[viewport_current_page + 1]
       IN  /\ bounds[2] <= Len(_page_content)
           /\ viewport(Self) = SubSeq(_page_content, bounds[1] + 1, bounds[2])

\* C3 as stated: "aaaa bbbb cccc" with target page size 6 paginates to
\* [(0,5), (5,10), (10,14)].
C3_ScenarioPagesAsStated ==
    (last.op = "_split_pages" /\ _page_content = ScenarioBody /\ viewport_size = 6) =>
        viewport_pages = << <<0, 5>>, <<5, 10>>, <<10, 14>> >>

\* C3 amended: "aaaa bbbb cccc" with target page size 6 paginates to
\* [(0,10), (10,14)]: the proposed end 6 lies inside "bbbb" and moves forward
\* to just after the next space; the final page holds the remainder.
C3_ScenarioPages ==
    (last.op = "_split_pages" /\ _page_content = ScenarioBody /\ viewport_size = 6) =>
        viewport_pages = << <<0, 10>>, <<10, 14>> >>

C3_ScenarioPaginated ==
    /\ last.op = "_split_pages"
    /\ _page_content = ScenarioBody
    /\ viewport_size = 6
    /\ Len(viewport_pages) = 2

\* the empty query and queries of whitespace and punctuation only
PunctuationQueries ==
    { <<>>, <<" ">>, <<" ", "\t">>, <<".">>, <<"?", "!">>, <<" ", ".", " ">>, <<"-", "\n">> }

\* C4 as stated: find_on_page of the lone wildcard "*" is empty after
\* normalization, and it, the empty query and any whitespace/punctuation-only
\* query report no match and leave the current page index unchanged.
C4_WildcardAloneNoMatch ==
    \A query \in PunctuationQueries \cup { <<"*">> } :
        \E done \in {find_on_page(Self, query)} :
            /\ Strip(NormalizeQuery(query)) = <<>>
            /\ done.ret = None
            /\ done.self.viewport_current_page = viewport_current_page

\* C4 amended: the lone wildcard "*" normalizes to the non-empty pattern ".* "
\* and find_on_page("*") reports a match on any document; the empty query and
\* any whitespace/punctuation-only query without "*" are empty after
\* normalization, report no match and leave the current page index unchanged.
C4_BlankQueryNoMatch ==
    /\ NormalizeQuery(<<"*">>) = <<".", "*", " ">>
    /\ find_on_page(Self, <<"*">>).ret # None
    /\ \A query \in PunctuationQueries :
          \E done \in {find_on_page(Self, query)} :
              /\ Strip(NormalizeQuery(query)) = <<>>
              /\ done.ret = None
              /\ done.self.viewport_current_page = viewport_current_page

C4_WildcardAloneMatched ==
    /\ last.op = "find_on_page"
    /\ _find_on_page_query = Some(<<"*">>)
    /\ last.ret # None
    /\ Len(last.ret[1]) > 0
    /\ Len(viewport_pages) >= 2

\* C5: after an open whose loader fails, the document view has exactly one
\* page, whatever the path and the viewport size.
C5_FailedOpenSinglePage ==
    (last.op = "open_path" /\ last.outcome \in CaughtKinds) => Len(viewport_pages) = 1

\* C6: for every failure outcome of the loader, open returns normally with a
\* placeholder that replaces the document (title equal to the failure kind,
\* body containing the path, current page 0), and exactly one history entry
\* for the attempted path has been appended.
C6_OpenNeverRaises ==
    (last.op = "open_path" /\ last.outcome \in CaughtKinds \cup UncaughtKinds) =>
        /\ ~last.raised
        /\ page_title = Some(last.outcome)
        /\ Contains(_page_content, CurrentPath(Self))
        /\ viewport_current_page = 0
        /\ Len(history) = clock
        /\ history[Len(history)][2] = clock - 1

\* C7: after any sequence of open, page_up, page_down, find_on_page and
\* find_next the page list is non-empty and 0 <= current page < len(pages), so
\* the header's "page X of Y" satisfies 1 <= X <= Y.
C7_PageIndexInBounds ==
    /\ Len(viewport_pages) >= 1
    /\ 0 <= viewport_current_page
    /\ viewport_current_page < Len(viewport_pages)
    /\ 1 <= HeaderPosition(Self)[1]
    /\ HeaderPosition(Self)[1] <= HeaderPosition(Self)[2]

C7_PagedToLastPage ==
    /\ last.op = "page_down"
    /\ Len(viewport_pages) >= 3
    /\ viewport_current_page = Len(viewport_pages) - 1

\* C8: for any body and any target page size >= 1 the pages start at 0, end at
\* len(body), and each starts where the one before ends; the empty body gives
\* the single page (0,0) and an empty viewport.
C8_PaginateCovers ==
    last.op = "_split_pages" =>
        /\ Covers(viewport_pages, Len(_page_content))
        /\ _page_content = <<>> =>
              (viewport_pages = << <<0, 0>> >> /\ viewport(Self) = <<>>)

C8_SeveralPages ==
    /\ last.op = "_split_pages"
    /\ Len(viewport_pages) >= 3
    /\ \E i \in 1..Len(viewport_pages) :
          viewport_pages[i][2] - viewport_pages[i][1] > viewport_size

\* C9: every page end other than the final page's is len(body) or comes
\* right after a space, tab, carriage return or newline.
C9_WordSafety ==
    last.op = "_split_pages" =>
        \A i \in 1..(Len(viewport_pages) - 1) :
            LET end == viewport_pages[i][2]
            IN  end = Len(_page_content) \/ _page_content[(end - 1) + 1] \in Whitespace

C9_EndMovedPastWord ==
    /\ last.op = "_split_pages"
    /\ Len(viewport_pages) >= 2
    /\ viewport_pages[1][2] > viewport_size
    /\ viewport_pages[1][2] < Len(_page_content)
    /\ _page_content[viewport_pages[1][2]] = "\t"

\* C10: from any session state, find_on_page(q) then find_on_page(q) leaves
\* the same current page, active query and last-match index, and returns the
\* same result, as find_on_page(q) then find_next().
C10_RepeatIsFindNext ==
    \A query \in Queries :
        \E first \in {find_on_page(Self, query).self} :
            find_on_page(first, query) = find_next(first)

C10_RepeatMovesOn ==
    /\ last.op = "find_on_page"
    /\ last.ret # None
    /\ _find_on_page_query # None
    /\ RepeatsSearch(Self, _find_on_page_query[1])
    /\ find_on_page(Self, _find_on_page_query[1]).self.viewport_current_page
          # viewport_current_page

\* the page of index i holds a match of query (lines 155-174)
PageMatches(self, query, i) ==
    LET nquery == NormalizeQuery(query)
        bounds == self.viewport_pages[i + 1]
    IN  /\ Strip(nquery) # <<>>
        /\ ReSearch(nquery, NormalizeContent(Slice(self._page_content, bounds[1], bounds[2])))

\* the indices of the pages of self that hold a match of query
MatchingPages(self, query) ==
    {i \in 0..(Len(self.viewport_pages) - 1) : PageMatches(self, query, i)}

\* the page of the non-empty set `among` met first in the circular order
\* from, from + 1, ..., n - 1, 0, ..., from - 1
FirstFrom(among, from, n) ==
    CHOOSE i \in among : \A j \in among : (i - from + n) % n <= (j - from + n) % n

\* find_next called k times in a row
RECURSIVE FindNextTimes(_, _)
FindNextTimes(self, k) ==
    IF k = 0 THEN [self |-> self, ret |-> None]
    ELSE find_next(FindNextTimes(self, k - 1).self)

\* C11: once a search has landed on a match page m of a document of P pages,
\* repeated find_next calls never report no match, each moves to the next
\* matching page in increasing circular order, m comes back within P calls,
\* and when m is the only matching page every find_next returns m again.
C11_WrapAroundComplete ==
    (last.op \in {"find_on_page", "find_next"} /\ last.ret # None) =>
        LET P == Len(viewport_pages)
            m == viewport_current_page
            matching == MatchingPages(Self, _find_on_page_query[1])
        IN  /\ m \in matching
            /\ _find_on_page_last_result = Some(m)
            /\ \A k \in 1..(2 * P) :
                  \E before \in {FindNextTimes(Self, k - 1).self} :
                  \E after \in {find_next(before)} :
                      /\ after.ret # None
                      /\ after.self.viewport_current_page =
                             FirstFrom(matching, (before.viewport_current_page + 1) % P, P)
                      /\ after.ret = Some(viewport(after.self))
                      /\ matching = {m} => after.self.viewport_current_page = m
            /\ \E k \in 1..P : FindNextTimes(Self, k).self.viewport_current_page = m

C11_WrappedToEarlierMatch ==
    /\ last.op = "find_next"
    /\ last.ret # None
    /\ Len(viewport_pages) >= 3
    /\ Cardinality(MatchingPages(Self, _find_on_page_query[1])) = 2
    /\ find_next(Self).self.viewport_current_page < viewport_current_page
    /\ find_next(find_next(Self).self).self.viewport_current_page = viewport_current_page

\* page_down and page_up called k times in a row
RECURSIVE PageDownTimes(_, _)
PageDownTimes(self, k) == IF k = 0 THEN self ELSE page_down(PageDownTimes(self, k - 1))
RECURSIVE PageUpTimes(_, _)
PageUpTimes(self, k) == IF k = 0 THEN self ELSE page_up(PageUpTimes(self, k - 1))

\* C12: page_down at the last page and page_up at page 0 leave the index
\* unchanged, otherwise they move it by exactly one; after len(pages)
\* page_down calls the index is len(pages)-1 and stays there, after len(pages)
\* page_up calls it is 0 and stays there.
C12_BoundaryNavigation ==
    LET P == Len(viewport_pages)
        c == viewport_current_page
    IN  /\ page_down(Self).viewport_current_page = (IF c = P - 1 THEN c ELSE c + 1)
        /\ page_up(Self).viewport_current_page = (IF c = 0 THEN c ELSE c - 1)
        /\ \A k \in P..(P + 2) :
              /\ PageDownTimes(Self, k).viewport_current_page = P - 1
              /\ PageUpTimes(Self, k).viewport_current_page = 0

C12_PageUpAtFirstPage ==
    /\ last.op = "page_up"
    /\ Len(viewport_pages) >= 3
    /\ viewport_current_page = 0
    /\ page_up(Self) = Self
    /\ PageDownTimes(Self, Len(viewport_pages)).viewport_current_page = 2

\* C13: every open call, whether the loader succeeds, fails or raises, appends
\* exactly one entry carrying the resolved path; no operation removes or
\* rewrites an entry; page_up, page_down, find_on_page and find_next leave the
\* history unchanged; the current path is the path of the last entry.
C13_HistoryAppendOnly ==
    /\ [](/\ Len(history) >= 1
          /\ CurrentPath(Self) = history[Len(history)][1]
          /\ \A path \in InputPaths :
             \A outcome \in LoaderOutcomes(ResolvePath(Self, path)) :
                \E done \in {open_path(Self, path, outcome, clock).self} :
                    /\ done.history = Append(history, <<ResolvePath(Self, path), clock>>)
                    /\ CurrentPath(done) = ResolvePath(Self, path)
          /\ page_up(Self).history = history
          /\ page_down(Self).history = history
          /\ find_next(Self).self.history = history
          /\ \A query \in Queries : find_on_page(Self, query).self.history = history)
    /\ [][ /\ last'.op = "open_path" =>
                /\ Len(history') = Len(history) + 1
                /\ SubSeq(history', 1, Len(history)) = history
                /\ \E path \in InputPaths :
                      history'[Len(history')][1] = ResolvePath(Self, path)
           /\ last'.op # "open_path" => history' = history
         ]_vars

C13_RaisingOpenRecorded ==
    /\ last.op = "open_path"
    /\ last.raised
    /\ Len(history) = 1 + MaxOpens
    /\ history[2][1] = Home
    /\ CurrentPath(Self) = <<"g">>

\* the browser can serve the next call: a page is displayed
Usable(self) ==
    /\ Len(self.viewport_pages) >= 1
    /\ self.viewport_current_page \in 0..(Len(self.viewport_pages) - 1)

\* the user messages on_messages appends for the messages it is passed
UserMessages(messages) == [i \in 1..Len(messages) |-> UserMessage(messages[i])]

\* what C14 says of one on_messages call from the current state
ReturnsText(messages, create_result) ==
    \A done \in on_messages(Self, _chat_history, messages, create_result, clock) :
        /\ ~done.raised
        /\ done.ret # None
        /\ done.chat = _chat_history \o UserMessages(messages)
                           \o <<AssistantMessage(done.ret[1])>>
        /\ done.exception # "" => done.ret[1].kind = "traceback"
        /\ Usable(done.self)

\* C14 as stated: every on_messages call returns a text response and appends
\* exactly one assistant message, whatever fails (model client error,
\* undecodable arguments, a missing argument, an unexpected message type),
\* and the browser remains usable.
C14_AlwaysReturnsText ==
    \A messages \in MessageLists : \A create_result \in CreateResults :
        ReturnsText(messages, create_result)

\* C14 amended: every on_messages call whose messages are all TextMessage or
\* MultiModalMessage returns a text response and appends exactly one
\* assistant message after the user messages, whatever fails while
\* generating the reply (model client error, undecodable arguments, a
\* missing argument, an exception of the browser, no user message to answer),
\* a failure being reported as text, and the browser remains usable; a
\* message of another type makes the call raise ValueError with no assistant
\* message appended and the browser untouched.
C14_AcceptedMessagesReturnText ==
    \A messages \in MessageLists : \A create_result \in CreateResults :
        IF \A i \in 1..Len(messages) : messages[i] \in AcceptedTypes
        THEN ReturnsText(messages, create_result)
        ELSE \A done \in on_messages(Self, _chat_history, messages, create_result, clock) :
                /\ done.raised
                /\ done.ret = None
                /\ done.self = Self
                /\ \A i \in 1..Len(done.chat) :
                      i > Len(_chat_history) => done.chat[i].role = "user"

C14_FailureReportedAsText ==
    /\ last.op = "on_messages"
    /\ last.outcome = "PermissionError"
    /\ ~last.raised
    /\ last.ret[1].kind = "traceback"
    /\ _chat_history[Len(_chat_history)] = AssistantMessage(last.ret[1])
    /\ Len(history) = 1 + MaxOpens

\* C15: the first find_on_page(q) issued after opening a document (current
\* page 0) moves to the lowest-indexed page of the new document that matches
\* q, for every q, whatever was searched on the document open before.
C15_FirstSearchFindsLowest ==
    (last.op = "open_path" /\ ~last.raised) =>
        /\ viewport_current_page = 0
        /\ \A query \in Queries :
              \E matching \in {MatchingPages(Self, query)} :
                  matching # {} =>
                      find_on_page(Self, query).self.viewport_current_page
                          = FirstFrom(matching, 0, Len(viewport_pages))

\* C16: when find_on_page(q) does not delegate to find_next, it stores q as
\* the active query and moves to the first matching page in the circular order
\* current, current+1, ..., last, 0, ..., current-1, remembering it as the
\* last match; if no page matches it reports no match, clears the last-match
\* index and leaves the current page index unchanged.
C16_FreshSearchScansFromCurrent ==
    \A query \in Queries \cup PunctuationQueries :
        ~RepeatsSearch(Self, query) =>
            \E done \in {find_on_page(Self, query)} :
            \E matching \in {MatchingPages(Self, query)} :
                /\ done.self._find_on_page_query = Some(query)
                /\ [done.self EXCEPT !._find_on_page_query = _find_on_page_query,
                                     !._find_on_page_last_result = _find_on_page_last_result,
                                     !.viewport_current_page = viewport_current_page] = Self
                /\ IF matching # {}
                   THEN \E found \in {FirstFrom(matching, viewport_current_page,
                                                Len(viewport_pages))} :
                            /\ done.self.viewport_current_page = found
                            /\ done.self._find_on_page_last_result = Some(found)
                            /\ done.ret = Some(viewport(done.self))
                   ELSE /\ done.ret = None
                        /\ done.self._find_on_page_last_result = None
                        /\ done.self.viewport_current_page = viewport_current_page

C16_FreshSearchWrapped ==
    /\ last.op = "find_on_page"
    /\ last.ret # None
    /\ Len(viewport_pages) >= 3
    /\ \E query \in Queries :
          /\ ~RepeatsSearch(Self, query)
          /\ MatchingPages(Self, query) # {}
          /\ find_on_page(Self, query).self.viewport_current_page < viewport_current_page

\* C17: find_next with no active query reports no match and changes nothing;
\* with an active query it scans circularly from last_match_page_index + 1
\* (0 past the last page, 0 when no match is remembered), wherever page_up and
\* page_down have moved the current page, and on a match sets both the
\* current page and the last-match index to the page found.
C17_FindNextScansFromLastMatch ==
    \E done \in {find_next(Self)} :
        IF _find_on_page_query = None
        THEN done.ret = None /\ done.self = Self
        ELSE LET P == Len(viewport_pages)
                 start == IF _find_on_page_last_result = None THEN 0
                          ELSE IF _find_on_page_last_result[1] + 1 > P - 1 THEN 0
                          ELSE _find_on_page_last_result[1] + 1
             IN  \E matching \in {MatchingPages(Self, _find_on_page_query[1])} :
                     /\ matching # {} =>
                           \E found \in {FirstFrom(matching, start, P)} :
                               /\ done.self.viewport_current_page = found
                               /\ done.self._find_on_page_last_result = Some(found)
                               /\ done.ret = Some(viewport(done.self))
                     /\ matching = {} => done.ret = None
                     /\ \A c \in 0..(P - 1) :
                           \E moved \in {find_next([Self EXCEPT !.viewport_current_page = c])} :
                               /\ moved.ret = done.ret
                               /\ moved.self._find_on_page_last_result
                                      = done.self._find_on_page_last_result
                               /\ matching # {} => moved.self = done.self

C17_PagedAwayThenFindNext ==
    /\ last.op \in {"page_up", "page_down"}
    /\ _find_on_page_query # None
    /\ _find_on_page_last_result # None
    /\ _find_on_page_last_result[1] < Len(viewport_pages)
    /\ _find_on_page_last_result # Some(viewport_current_page)
    /\ \E done \in {find_next(Self)} :
          /\ done.ret # None
          /\ done.self.viewport_current_page
                 # FirstFrom(MatchingPages(Self, _find_on_page_query[1]),
                             (viewport_current_page + 1) % Len(viewport_pages),
                             Len(viewport_pages))

\* C18: page_up and page_down change only the current page index: the active
\* query, the last-match page index, the title, the body, the page list and
\* the history are unchanged, so the search cursor persists across page
\* navigation within one document.
C18_PagingKeepsCursor ==
    /\ [](/\ [page_up(Self) EXCEPT !.viewport_current_page = viewport_current_page] = Self
          /\ [page_down(Self) EXCEPT !.viewport_current_page = viewport_current_page] = Self)
    /\ [][ last'.op \in {"page_up", "page_down"} =>
               UNCHANGED <<_find_on_page_query, _find_on_page_last_result, page_title,
                           _page_content, viewport_pages, history, viewport_size>>
         ]_vars

C18_PagedAwayFromMatch ==
    /\ last.op = "page_up"
    /\ _find_on_page_query = Some(<<"c", "d">>)
    /\ _find_on_page_last_result = Some(2)
    /\ viewport_current_page = 1
    /\ Len(viewport_pages) = 3

\* C19: the page index a circular scan starts at is within [0, len(pages)),
\* and every page index the scan reads is within the current page list, in
\* every reachable state, including when the remembered last-match index was
\* recorded on a longer document open before.
C19_ScanWithinPages ==
    LET P == Len(viewport_pages)
    IN  \A start \in {StartingViewport(Self), viewport_current_page} :
            /\ start \in 0..(P - 1)
            /\ \E idxs \in {Idxs(Self, start)} :
                  /\ Len(idxs) = P
                  /\ \A k \in 1..Len(idxs) : idxs[k] \in 0..(P - 1)

C19_OpenedShorterDocument ==
    /\ last.op = "open_path"
    /\ ~last.raised
    /\ _find_on_page_query # None
    /\ _find_on_page_last_result # None
    /\ _find_on_page_last_result[1] >= Len(viewport_pages)
    /\ StartingViewport(Self) = 0

\* C20: pagination of a non-empty body ends for every target page size >= 1:
\* each page is non-empty, every page except the last has at least the target
\* page size, and the start offset strictly increases until it reaches
\* len(body), so there are at most len(body) pages.
C20_PagesAdvance ==
    (last.op = "_split_pages" /\ _page_content # <<>>) =>
        LET n == Len(viewport_pages)
        IN  /\ n >= 1
            /\ n <= Len(_page_content)
            /\ viewport_pages[1][1] = 0
            /\ viewport_pages[n][2] = Len(_page_content)
            /\ \A i \in 1..n : viewport_pages[i][2] > viewport_pages[i][1]
            /\ \A i \in 1..(n - 1) :
                  /\ viewport_pages[i][2] - viewport_pages[i][1] >= viewport_size
                  /\ viewport_pages[i + 1][1] > viewport_pages[i][1]
                  /\ viewport_pages[i + 1][1] < Len(_page_content)

C20_ShortLastPage ==
    /\ last.op = "_split_pages"
    /\ viewport_size = 2
    /\ Len(viewport_pages) = 3
    /\ viewport_pages[1][2] - viewport_pages[1][1] = 2
    /\ viewport_pages[3][2] - viewport_pages[3][1] = 1

====
